---- MODULE Spec2Model ----
(***************************************************************************)
(* Verification model of the vinylwp player: the App orchestrator (tracks, *)
(* current-track pointer, play flag, audio context / analyser refs, the    *)
(* asynchronous playTrack calls) and the VinylPlayer canvas renderer (the  *)
(* visualizer effect, its requestAnimationFrame loop, renderFrame and      *)
(* drawRing).                                                              *)
(*                                                                         *)
(* React is modelled by its documented scheduling: a handler's state       *)
(* updates are committed by a render; a render's passive effects           *)
(* (useEffect) are flushed in a later step, children before parents, and   *)
(* animation-frame callbacks may fire between the commit and that flush.   *)
(***************************************************************************)
EXTENDS Integers, Sequences, FiniteSets, Bags, TLC

(***************************************************************************)
(* Program constants                                                       *)
(***************************************************************************)
Segments == 180
BaseRadius == 205
BassBins == 12
MaxByte == 255
FftSize == 2048
CanvasSize == 800
DiscSize == 400
InnerFreqStart == 10
InnerFreqEnd == 150
InnerAmpScale == 30
InnerOffsetBase == 5
InnerOffsetGain == 15
OuterFreqStart == 100
OuterFreqEnd == 400
OuterAmpScale == 20
OuterOffsetBase == 15
OuterOffsetGain == 5

\* analyser.frequencyBinCount is half the transform size
frequencyBinCount == FftSize \div 2

\* Radii are exact rationals held as integers in units of 1/(12*255): the
\* code's (bassSum / 12) / 255 and (val / 255) * ampScale are both whole in
\* that unit.  Rounding of the doubles is monotone and every bound stated
\* below is a representable number, so the bounds carry over to the doubles.
RScale == BassBins * MaxByte

(***************************************************************************)
(* IEEE-754 binary64 arithmetic, as far as freqIndex needs it.             *)
(* Math.floor makes the rounding of i / 90, t * (freqEnd - freqStart) and  *)
(* the final sum or difference visible, so these three operations are      *)
(* computed with round-to-nearest-even on 53-bit significands.  A number   *)
(* is a little-endian tuple of NumLimbs limbs of LimbBits bits, in units   *)
(* of 2^-(FracLimbs*LimbBits).                                             *)
(***************************************************************************)
LimbBits == 12
FracLimbs == 5
NumLimbs == FracLimbs + 1
MantBits == 53

RECURSIVE Pow2(_)
Pow2(n) == IF n = 0 THEN 1 ELSE 2 * Pow2(n - 1)

LimbBase == Pow2(LimbBits)

Bit(b, n) == (b[((n - 1) \div LimbBits) + 1] \div Pow2((n - 1) % LimbBits)) % 2

BitLen(b) ==
  IF \A n \in 1..(NumLimbs * LimbBits) : Bit(b, n) = 0 THEN 0
  ELSE CHOOSE n \in 1..(NumLimbs * LimbBits) :
         Bit(b, n) = 1 /\ \A m \in (n + 1)..(NumLimbs * LimbBits) : Bit(b, m) = 0

RECURSIVE AddLimbs(_,_,_,_)
AddLimbs(a, b, k, carry) ==
  IF k > NumLimbs THEN <<>>
  ELSE LET v == a[k] + b[k] + carry
       IN <<v % LimbBase>> \o AddLimbs(a, b, k + 1, v \div LimbBase)

RECURSIVE SubLimbs(_,_,_,_)
SubLimbs(a, b, k, borrow) ==
  IF k > NumLimbs THEN <<>>
  ELSE LET v == a[k] - b[k] - borrow
       IN IF v < 0 THEN <<v + LimbBase>> \o SubLimbs(a, b, k + 1, 1)
          ELSE <<v>> \o SubLimbs(a, b, k + 1, 0)

RECURSIVE MulLimbs(_,_,_,_)
MulLimbs(b, d, k, carry) ==
  IF k > NumLimbs THEN <<>>
  ELSE LET v == b[k] * d + carry
       IN <<v % LimbBase>> \o MulLimbs(b, d, k + 1, v \div LimbBase)

\* long division rem / den: the fraction's limbs, most significant first,
\* followed by the final remainder
RECURSIVE DivLimbs(_,_,_)
DivLimbs(rem, den, k) ==
  IF k = 0 THEN <<rem>>
  ELSE <<(rem * LimbBase) \div den>> \o DivLimbs((rem * LimbBase) % den, den, k - 1)

\* round an exact value (sticky: a non-zero part below the last limb) to the
\* nearest double, ties to even
RoundToDouble(b, sticky) ==
  LET h == BitLen(b) IN
  IF h <= MantBits THEN b
  ELSE LET cut == h - MantBits
           q == cut \div LimbBits
           s == cut % LimbBits
           rest == sticky \/ \E n \in 1..(cut - 1) : Bit(b, n) = 1
           up == Bit(b, cut) = 1 /\ (rest \/ Bit(b, cut + 1) = 1)
           trunc == [k \in 1..NumLimbs |->
                       IF k <= q THEN 0
                       ELSE IF k = q + 1 THEN b[k] - (b[k] % Pow2(s)) ELSE b[k]]
           unit == [k \in 1..NumLimbs |-> IF k = q + 1 THEN Pow2(s) ELSE 0]
       IN IF up THEN AddLimbs(trunc, unit, 1, 0) ELSE trunc

FromInt(n) == [k \in 1..NumLimbs |-> IF k = NumLimbs THEN n ELSE 0]

\* Math.floor of a non-negative double
MathFloor(b) == b[NumLimbs]

\* n / den for small non-negative integers
FDiv(n, den) ==
  LET d == DivLimbs(n % den, den, FracLimbs)
      exact == [k \in 1..NumLimbs |->
                  IF k = NumLimbs THEN n \div den ELSE d[FracLimbs + 1 - k]]
  IN RoundToDouble(exact, d[FracLimbs + 1] # 0)

\* b * d for a small non-negative integer d
FMulInt(b, d) == RoundToDouble(MulLimbs(b, d, 1, 0), FALSE)

FAdd(a, b) == RoundToDouble(AddLimbs(a, b, 1, 0), FALSE)

\* a - b for a >= b
FSub(a, b) == RoundToDouble(SubLimbs(a, b, 1, 0), FALSE)

(***************************************************************************)
(* State                                                                   *)
(***************************************************************************)
VARIABLES
  tracks,            \* App state: the track records (analysis result or none)
  currentTrackIndex, \* App state: -1 or a position in tracks
  isAnalyzing,       \* App state
  playerState,       \* App state: [isPlaying]
  rendered,          \* the values the last render closed over
  audioContextRef,   \* audioContextRef.current
  analyserRef,       \* analyserRef.current
  audio,             \* the audio element: [src (track index), playing, last (command)]
  calls,             \* the bag of playTrack calls suspended at an await
  listener,          \* the handleEnded closure attached to the audio element
  vp,                \* the mounted VinylPlayer and its committed props
  loop,              \* the visualizer effect instance installed, its closure
  effectsPending,    \* passive effects of the last commit not yet flushed
  requestRef,        \* requestRef.current of the mounted VinylPlayer
  pending,           \* animation-frame callbacks requested and not yet run
  lastFrame,         \* what renderFrame saw and did, if the last step ran it
  lastWrite,         \* what the analysis attach wrote, if the last step ran it
  ringArgs,          \* ring generator run on its own: the arguments
  ringPoints,        \* ring generator run on its own: the points built
  ringPath,          \* ring generator run on its own: the path stroked
  ringBuilds         \* ring generator run on its own: the number of calls

(***************************************************************************)
(* Ring geometry (drawRing)                                                *)
(***************************************************************************)

\* a mapping that interpolates once around the whole circle
freqIndexUnmirrored(i, freqStart, freqEnd) ==
  MathFloor(FAdd(FromInt(freqStart),
                 FMulInt(FDiv(i, Segments), freqEnd - freqStart)))

\* the mirrored spectrum mapping of segment index i
freqIndex(i, freqStart, freqEnd) ==
  IF 2 * i <= Segments
  THEN MathFloor(FAdd(FromInt(freqStart),
                      FMulInt(FDiv(i, Segments \div 2), freqEnd - freqStart)))
  ELSE MathFloor(FSub(FromInt(freqEnd),
                      FMulInt(FDiv(i - Segments \div 2, Segments \div 2),
                              freqEnd - freqStart)))

\* the frequency ranges rings are built for: the two of renderFrame, a short
\* one, a single bin, and one that runs past the analyser's bins
FreqRanges ==
  { <<InnerFreqStart, InnerFreqEnd>>, <<OuterFreqStart, OuterFreqEnd>>,
    <<0, 45>>, <<7, 7>>, <<900, 1100>> }

\* freqIndex depends on (i, freqStart, freqEnd) only: tabulated once
FreqIndexTable ==
  [r \in FreqRanges |-> [i \in 0..Segments |-> freqIndex(i, r[1], r[2])]]

\* Frequency snapshots getByteFrequencyData can deliver: one unsigned byte
\* per bin.  A snapshot is named; SnapshotByte gives the byte of bin k.
Snapshots == {"zeros", "full", "bass", "ramp", "spiky"}

\* the snapshots the frames of the player are run on
FrameSnapshots == {"zeros", "bass", "full", "spiky"}

SnapshotByte(snap, k) ==
  CASE snap = "zeros" -> 0
    [] snap = "full"  -> MaxByte
    [] snap = "bass"  -> IF k < BassBins THEN MaxByte ELSE 0
    [] snap = "ramp"  -> k % (MaxByte + 1)
    [] snap = "spiky" -> (k * 97 + 13) % (MaxByte + 1)

\* a read that clamps an index past the end to the last bin
dataArrayAtClamped(snap, k) ==
  SnapshotByte(snap, IF k >= frequencyBinCount THEN frequencyBinCount - 1 ELSE k)

\* dataArray[k] || 0 : an index outside the typed array reads undefined
dataArrayAt(snap, k) ==
  IF k >= 0 /\ k < frequencyBinCount THEN SnapshotByte(snap, k) ELSE 0

\* a ring point whose amplitude is not normalised by 255
ringPointUnnormalised(snap, radiusOffset, range, ampScale, i) ==
  LET bin == FreqIndexTable[range][i]
      val == dataArrayAt(snap, bin)
      amp == val * ampScale * RScale
  IN [bin |-> bin, val |-> val,
      r |-> BaseRadius * RScale + radiusOffset + amp,
      angle |-> i * (360 \div Segments) - 90]

\* one point of the ring: the bin it reads, its radius (in 1/RScale) and its
\* angle in degrees (i * angleStep - PI/2, angleStep = 2*PI/segments)
ringPoint(snap, radiusOffset, range, ampScale, i) ==
  LET bin == FreqIndexTable[range][i]
      val == dataArrayAt(snap, bin)
      amp == val * ampScale * BassBins
  IN [bin |-> bin, val |-> val,
      r |-> BaseRadius * RScale + radiusOffset + amp,
      angle |-> i * (360 \div Segments) - 90]

\* a drawRing that keeps a phase between calls: each call starts one segment
\* further round
drawRingDrifting(snap, radiusOffset, range, ampScale) ==
  [n \in 1..(Segments + 1) |->
     ringPoint(snap, radiusOffset, range, ampScale, (n - 1 + ringBuilds) % (Segments + 1))]

\* the points array of drawRing: indices 0..segments, kept as a sequence
\* (element i of the array is element i+1 of the sequence)
drawRing(snap, radiusOffset, range, ampScale) ==
  [n \in 1..(Segments + 1) |-> ringPoint(snap, radiusOffset, range, ampScale, n - 1)]

\* The path drawRing strokes, as the canvas calls made on it.  A position
\* is the tuple of the indices of the points it averages: <<i>> is
\* points[i], <<i, i + 1>> the midpoint of points[i] and points[i + 1].
moveTo(to) == [op |-> "moveTo", control |-> <<>>, to |-> to]
lineTo(to) == [op |-> "lineTo", control |-> <<>>, to |-> to]
quadraticCurveTo(control, to) == [op |-> "quadraticCurveTo", control |-> control, to |-> to]

\* a path whose smooth branch stops after the loop over the midpoints
strokePathNoLastCurve(points, smoothing) ==
  LET length == Len(points) IN
  IF smoothing
  THEN <<moveTo(<<0>>)>>
         \o [i \in 1..(length - 3) |-> quadraticCurveTo(<<i>>, <<i, i + 1>>)]
  ELSE <<moveTo(<<0>>)>> \o [n \in 1..length |-> lineTo(<<n - 1>>)]

strokePath(points, smoothing) ==
  LET length == Len(points) IN
  IF smoothing
  THEN <<moveTo(<<0>>)>>
         \o [i \in 1..(length - 3) |-> quadraticCurveTo(<<i>>, <<i, i + 1>>)]
         \o <<quadraticCurveTo(<<length - 2>>, <<length - 1>>)>>
  ELSE <<moveTo(<<0>>)>> \o [n \in 1..length |-> lineTo(<<n - 1>>)]

RECURSIVE SumBins(_,_)
SumBins(snap, n) == IF n = 0 THEN 0 ELSE dataArrayAt(snap, n - 1) + SumBins(snap, n - 1)

\* a bass sum whose loop stops one bin short
bassSumElevenBins(snap) == SumBins(snap, BassBins - 1)

\* bassSum of renderFrame; bassLevel = bassSum / RScale
bassSum(snap) == SumBins(snap, BassBins)

\* an inner offset with base and gain exchanged
innerRadiusOffsetSwapped(snap) ==
  InnerOffsetGain * RScale + bassSum(snap) * InnerOffsetBase

\* 5 + bassLevel * 15, in 1/RScale
innerRadiusOffset(snap) == InnerOffsetBase * RScale + bassSum(snap) * InnerOffsetGain

\* an outer offset that moves with the bass as far as the inner one
outerRadiusOffsetInnerGain(snap) ==
  OuterOffsetBase * RScale + bassSum(snap) * InnerOffsetGain

\* 15 + bassLevel * 5, in 1/RScale
outerRadiusOffset(snap) == OuterOffsetBase * RScale + bassSum(snap) * OuterOffsetGain

vars ==
  << tracks, currentTrackIndex, isAnalyzing, playerState, rendered,
     audioContextRef, analyserRef, audio, calls, listener, vp, loop,
     effectsPending, requestRef, pending, lastFrame, lastWrite, ringArgs,
     ringPoints, ringPath, ringBuilds >>

appVars == << tracks, currentTrackIndex, isAnalyzing, playerState >>
refVars == << audioContextRef, analyserRef, audio, calls, listener >>
rendererVars == << loop, requestRef, pending >>
ringVars == << ringArgs, ringPoints, ringPath, ringBuilds >>

\* bounds of the model
MaxTracks == 2
MaxCalls == 2

Null == "null"
NoAnalysis == "none"

\* accent colours: DefaultAnalysis.colors.accent, the accent of the fallback
\* result of analyzeAudioVibe, and an accent the remote service chose
DefaultAccent == "#a8a29e"
FallbackAccent == "#78716c"
VibeAccent == "#vibe"

\* analysis results, told apart by what the model reads of them
Results == {"fallback", "vibe"}

accentOf(result) == IF result = "fallback" THEN FallbackAccent ELSE VibeAccent

NoFrame ==
  [ran |-> FALSE, via |-> "none", node |-> Null, isPlaying |-> FALSE,
   accent |-> DefaultAccent, propsIsPlaying |-> FALSE, propsAccent |-> DefaultAccent,
   flushed |-> TRUE, cleared |-> FALSE, idleRings |-> 0, idleRadius |-> 0,
   samples |-> 0, snap |-> "none", rings |-> <<>>, next |-> 0, loop |-> "current",
   cancelled |-> 0]

\* no analysis result was attached by the last step
NoWrite == [wrote |-> FALSE, index |-> -1, overwrote |-> FALSE]

NoRingArgs ==
  [snap |-> "none", radiusOffset |-> 0, range |-> <<0, 0>>, smoothing |-> FALSE,
   ampScale |-> 0]

(***************************************************************************)
(* VinylPlayer: the frame renderer                                         *)
(***************************************************************************)

\* requestAnimationFrame returns a non-zero handle that names no other
\* pending callback.  Handles are only compared for equality and the handle
\* returned here is stored in requestRef.current at once, so no reference to
\* a callback that already ran or was cancelled survives the call: the least
\* free number stands for the browser's ever-growing counter.
requestAnimationFrame(pend) ==
  CHOOSE h \in 1..(Cardinality(pend) + 1) :
    /\ \A c \in pend : c.handle # h
    /\ \A g \in 1..(h - 1) : \E c \in pend : c.handle = g

\* cancelAnimationFrame, guarded by "if (requestRef.current)"
cancelAnimationFrame(pend, ref) == {c \in pend : ref = 0 \/ c.handle # ref}

callback(h, cl) ==
  [handle |-> h, isPlaying |-> cl.isPlaying, accent |-> cl.accent, loop |-> "current"]

\* a renderFrame that requests the next frame although no node is attached
haltedFrameReschedules(seen, ref, pend) ==
  LET h == requestAnimationFrame(pend)
  IN [frame |-> [seen EXCEPT !.next = h],
      requestRef |-> h,
      pending |-> pend \cup {callback(h, [isPlaying |-> seen.isPlaying,
                                          accent |-> seen.accent])}]

\* "if (!analyserRef.current)": the pending callback named by requestRef is
\* cancelled and renderFrame returns without a request
haltedFrame(seen, ref, pend) ==
  [frame |-> seen, requestRef |-> ref, pending |-> cancelAnimationFrame(pend, ref)]

\* a paused frame that does not keep the handle of its request
idleFrameForgetsHandle(seen, cl, pend) ==
  LET h == requestAnimationFrame(pend)
  IN [frame |-> [seen EXCEPT !.idleRings = 1, !.idleRadius = BaseRadius * RScale,
                             !.next = h],
      requestRef |-> requestRef,
      pending |-> pend \cup {callback(h, cl)}]

\* a paused frame that draws its ring at the inner ring's resting offset
idleFrameOffset(seen, cl, pend) ==
  LET h == requestAnimationFrame(pend)
  IN [frame |-> [seen EXCEPT !.idleRings = 1,
                             !.idleRadius = (BaseRadius + InnerOffsetBase) * RScale,
                             !.next = h],
      requestRef |-> h,
      pending |-> pend \cup {callback(h, cl)}]

\* "if (!isPlaying)": one idle ring (arc of radius baseRadius), then the
\* request for the next frame, then return
idleFrame(seen, cl, pend) ==
  LET h == requestAnimationFrame(pend)
  IN [frame |-> [seen EXCEPT !.idleRings = 1, !.idleRadius = BaseRadius * RScale,
                             !.next = h],
      requestRef |-> h,
      pending |-> pend \cup {callback(h, cl)}]

\* the two drawRing calls of a playing frame, as their arguments
ringsOf(snap) ==
  << [radiusOffset |-> innerRadiusOffset(snap),
      range |-> <<InnerFreqStart, InnerFreqEnd>>,
      opacity |-> 40, smoothing |-> TRUE, ampScale |-> InnerAmpScale],
     [radiusOffset |-> outerRadiusOffset(snap),
      range |-> <<OuterFreqStart, OuterFreqEnd>>,
      opacity |-> 20, smoothing |-> FALSE, ampScale |-> OuterAmpScale] >>

\* a playing frame: getByteFrequencyData, the bass level, the two rings,
\* then the request for the next frame
playingFrame(seen, cl, pend, snap) ==
  LET h == requestAnimationFrame(pend)
  IN [frame |-> [seen EXCEPT !.samples = 1, !.snap = snap, !.rings = ringsOf(snap),
                             !.next = h],
      requestRef |-> h,
      pending |-> pend \cup {callback(h, cl)}]

\* a renderFrame that tests for the node before it clears the canvas
renderFrameChecksFirst(cl, node, ref, pend, snap, via) ==
  LET seen == [NoFrame EXCEPT !.ran = TRUE, !.via = via, !.node = node,
                 !.isPlaying = cl.isPlaying, !.accent = cl.accent,
                 !.propsIsPlaying = vp.isPlaying, !.propsAccent = vp.accent,
                 !.flushed = (via = "effect" \/ ~effectsPending.vis),
                 !.cleared = (node # Null)]
  IN IF node = Null THEN haltedFrame(seen, ref, pend)
     ELSE IF ~cl.isPlaying THEN idleFrame(seen, cl, pend)
     ELSE playingFrame(seen, cl, pend, snap)

\* One execution of renderFrame with closure cl, reading node from
\* analyserRef; snap is the snapshot getByteFrequencyData delivers if asked.
\* Gives the frame's record and the new requestRef and pending callbacks.
renderFrame(cl, node, ref, pend, snap, via) ==
  LET seen == [NoFrame EXCEPT !.ran = TRUE, !.via = via, !.node = node,
                 !.isPlaying = cl.isPlaying, !.accent = cl.accent,
                 !.propsIsPlaying = vp.isPlaying, !.propsAccent = vp.accent,
                 !.flushed = (via = "effect" \/ ~effectsPending.vis),
                 !.cleared = TRUE]
  IN IF node = Null THEN haltedFrame(seen, ref, pend)
     ELSE IF ~cl.isPlaying THEN idleFrame(seen, cl, pend)
     ELSE playingFrame(seen, cl, pend, snap)

\* the snapshots a frame with closure cl can be given: none unless it samples
sampled(cl, node) == IF node # Null /\ cl.isPlaying THEN FrameSnapshots ELSE {"none"}

\* the browser runs a requested animation-frame callback
AnimationFrame ==
  \E cb \in pending : \E snap \in sampled(cb, analyserRef) :
    LET out == renderFrame(cb, analyserRef, requestRef, pending \ {cb}, snap, "raf")
    IN /\ lastFrame' = [out.frame EXCEPT !.loop = cb.loop]
       /\ requestRef' = out.requestRef
       /\ pending' = out.pending
       /\ lastWrite' = NoWrite
       /\ UNCHANGED << appVars, refVars, rendered, vp, loop, effectsPending, ringVars >>

(***************************************************************************)
(* App: rendering                                                          *)
(***************************************************************************)

\* currentTrack?.analysis, for the values t (tracks) and i (currentTrackIndex)
currentAnalysis(t, i) ==
  IF i >= 0 /\ i < Len(t) THEN t[i + 1].analysis ELSE NoAnalysis

\* (currentTrack?.analysis || DefaultAnalysis).colors.accent
accentFor(t, i) ==
  IF currentAnalysis(t, i) = NoAnalysis THEN DefaultAccent
  ELSE accentOf(currentAnalysis(t, i))

\* the VinylPlayer element App returns: the zero state renders one with
\* isPlaying={false} and the default colours under another parent, so the
\* first upload unmounts it and mounts the player of the playing state
vinylPlayerProps(t, i, p) ==
  IF Len(t) = 0
  THEN [kind |-> "zero", isPlaying |-> FALSE, accent |-> DefaultAccent]
  ELSE [kind |-> "main", isPlaying |-> p.isPlaying, accent |-> accentFor(t, i)]

NoEffects == [vis |-> FALSE, remount |-> FALSE, play |-> FALSE, listen |-> FALSE]

\* What the closures of a render of App with state (t, i, a, p) read:
\* tracks.length, currentTrackIndex, tracks[currentTrackIndex] (its id and its
\* analysis), isAnalyzing and playerState.isPlaying
renderOf(t, i, a, p) ==
  [len |-> Len(t), currentTrackIndex |-> i, analysis |-> currentAnalysis(t, i),
   trackId |-> IF i >= 0 /\ i < Len(t) THEN t[i + 1].id ELSE 0,
   isDefined |-> (i >= 0 /\ i < Len(t)), isAnalyzing |-> a, isPlaying |-> p.isPlaying]

\* a commit whose visualizer effect lists isPlaying alone as its dependency
CommitIgnoresAccent(t, i, a, p) ==
  LET props == vinylPlayerProps(t, i, p) IN
  /\ rendered' = renderOf(t, i, a, p)
  /\ vp' = props
  /\ effectsPending' =
       [vis |-> props.kind # vp.kind \/ props.isPlaying # vp.isPlaying,
        remount |-> props.kind # vp.kind,
        play |-> i # rendered.currentTrackIndex,
        listen |-> Len(t) # rendered.len \/ i # rendered.currentTrackIndex]

\* A render of App with state (t, i, a, p) is committed: the closures and
\* the child's props are those of this render, and the effects whose
\* dependencies changed are queued.
Commit(t, i, a, p) ==
  LET props == vinylPlayerProps(t, i, p) IN
  /\ rendered' = renderOf(t, i, a, p)
  /\ vp' = props
  /\ effectsPending' =
       [vis |-> props.kind # vp.kind \/ props.isPlaying # vp.isPlaying
                  \/ props.accent # vp.accent,
        remount |-> props.kind # vp.kind,
        play |-> i # rendered.currentTrackIndex,
        listen |-> Len(t) # rendered.len \/ i # rendered.currentTrackIndex]

Dirty ==
  rendered # renderOf(tracks, currentTrackIndex, isAnalyzing, playerState)

\* React flushes the passive effects of a commit before it renders again or
\* handles a discrete event
EffectsFlushed == effectsPending = NoEffects

\* the render React schedules after state was set outside a discrete event
\* (a promise continuation of playTrack, the audio element's ended event)
Render ==
  /\ Dirty
  /\ EffectsFlushed
  /\ Commit(tracks, currentTrackIndex, isAnalyzing, playerState)
  /\ lastFrame' = NoFrame
  /\ lastWrite' = NoWrite
  /\ UNCHANGED << appVars, refVars, rendererVars, ringVars >>

(***************************************************************************)
(* App: audio context and effects                                          *)
(***************************************************************************)

\* an initAudioContext that creates the context and forgets the analyser
initAudioContextNoAnalyser(ctx, node) ==
  [audioContextRef |-> "ctx", analyserRef |-> node]

\* an initAudioContext that creates a context and an analyser on every call
initAudioContextEveryCall(ctx, node) ==
  [audioContextRef |-> IF ctx = Null THEN "ctx" ELSE "ctx2",
   analyserRef |-> IF node = Null THEN "analyser" ELSE "analyser2"]

\* initAudioContext: creates the context and the analyser once
initAudioContext(ctx, node) ==
  IF ctx = Null THEN [audioContextRef |-> "ctx", analyserRef |-> "analyser"]
  ELSE [audioContextRef |-> ctx, analyserRef |-> node]

\* the synchronous part of playTrack up to "await audio.play()": load()
\* aborts the element's earlier play() promises
abortPlay(c) == IF c.pc = "play" THEN [c EXCEPT !.pc = "aborted"] ELSE c

playTrackStart(cs, i, id, analysis) ==
  BagOfAll(abortPlay, cs)
    (+) SetToBag({[index |-> i, trackId |-> id, hadAnalysis |-> analysis # NoAnalysis,
                   pc |-> "play"]})

\* the effect on [currentTrackIndex] runs playTrack when the index names a track
playsTrack == rendered.currentTrackIndex >= 0 /\ rendered.isDefined

\* a visualizer effect whose cleanup cancels nothing
visualizerEffectNoCleanup(snap) ==
  LET stale == {[c EXCEPT !.loop = "old"] : c \in pending}
      ref == IF effectsPending.remount THEN 0 ELSE requestRef
  IN renderFrame([isPlaying |-> vp.isPlaying, accent |-> vp.accent],
                 analyserRef, ref, stale, snap, "effect")

\* The visualizer effect of VinylPlayer: the cleanup of the instance
\* installed (of the unmounted component on a remount), then renderFrame()
\* called directly with the closure of the committed props.
visualizerEffect(snap) ==
  LET kept == IF loop.active THEN cancelAnimationFrame(pending, requestRef) ELSE pending
      stale == {[c EXCEPT !.loop = "old"] : c \in kept}
      ref == IF effectsPending.remount THEN 0 ELSE requestRef
  IN renderFrame([isPlaying |-> vp.isPlaying, accent |-> vp.accent],
                 analyserRef, ref, stale, snap, "effect")

\* the number of callbacks the cleanup of the installed instance cancels
cleanedUp ==
  IF loop.active
  THEN Cardinality(pending) - Cardinality(cancelAnimationFrame(pending, requestRef))
  ELSE 0

\* React flushes the passive effects of the last commit: the child's
\* (VinylPlayer) before the parent's (App), in the order they are declared
FlushEffects ==
  /\ ~EffectsFlushed
  /\ lastWrite' = NoWrite
  /\ \E snap \in sampled(vp, analyserRef) :
       IF effectsPending.vis
       THEN LET out == visualizerEffect(snap)
            IN /\ lastFrame' = [out.frame EXCEPT !.cancelled = cleanedUp]
               /\ requestRef' = out.requestRef
               /\ pending' = out.pending
               /\ loop' = [active |-> TRUE, isPlaying |-> vp.isPlaying, accent |-> vp.accent]
       ELSE /\ lastFrame' = NoFrame
            /\ UNCHANGED rendererVars
  /\ IF effectsPending.play /\ playsTrack
     THEN LET refs == initAudioContext(audioContextRef, analyserRef)
          IN /\ audioContextRef' = refs.audioContextRef
             /\ analyserRef' = refs.analyserRef
             /\ audio' = [src |-> rendered.currentTrackIndex, playing |-> FALSE,
                          last |-> "pending"]
             /\ calls' = playTrackStart(calls, rendered.currentTrackIndex, rendered.trackId,
                                         rendered.analysis)
     ELSE UNCHANGED << audioContextRef, analyserRef, audio, calls >>
  /\ listener' = IF effectsPending.listen
                 THEN [len |-> rendered.len, index |-> rendered.currentTrackIndex]
                 ELSE listener
  /\ effectsPending' = NoEffects
  /\ UNCHANGED << appVars, rendered, vp, ringVars >>

(***************************************************************************)
(* App: event handlers.  A discrete event (click, file input change) is    *)
(* handled after the pending effects were flushed, and the render it       *)
(* causes is committed before the next event.                              *)
(***************************************************************************)

\* new playTrack calls are started only while fewer than MaxCalls are suspended
CallsBelowBound == BagCardinality(calls) < MaxCalls

\* handleFileUpload with n files
handleFileUpload(n) ==
  /\ EffectsFlushed
  /\ Len(tracks) + n <= MaxTracks
  /\ CallsBelowBound
  /\ tracks' = tracks \o [k \in 1..n |-> [id |-> Len(tracks) + k, analysis |-> NoAnalysis]]
  /\ currentTrackIndex' = IF rendered.currentTrackIndex = -1
                          THEN rendered.len ELSE currentTrackIndex
  /\ Commit(tracks', currentTrackIndex', isAnalyzing, playerState)
  /\ lastFrame' = NoFrame
  /\ lastWrite' = NoWrite
  /\ UNCHANGED << isAnalyzing, playerState, refVars, rendererVars, ringVars >>

\* audioRef.current.pause(): playback stops; the element rejects its pending
\* play() promises (togglePlay then aborts the suspended calls)
pause(a) == [a EXCEPT !.playing = FALSE, !.last = "paused"]

\* audioRef.current.play() of togglePlay: the element plays its loaded
\* source, or the request joins the play() of playTrack still pending
play(a, cs) ==
  IF \E c \in BagToSet(cs) : c.pc = "play"
  THEN [a EXCEPT !.last = "pending"]
  ELSE [a EXCEPT !.playing = TRUE, !.last = "played"]

\* togglePlay, the play/pause button of Controls (rendered with the tracks)
togglePlay ==
  /\ EffectsFlushed
  /\ rendered.len > 0
  /\ LET refs == initAudioContext(audioContextRef, analyserRef)
     IN /\ audioContextRef' = refs.audioContextRef
        /\ analyserRef' = refs.analyserRef
  /\ IF rendered.isPlaying
     THEN /\ audio' = pause(audio)
          /\ calls' = BagOfAll(abortPlay, calls)
     ELSE /\ audio' = play(audio, calls)
          /\ UNCHANGED calls
  /\ playerState' = [playerState EXCEPT !.isPlaying = ~playerState.isPlaying]
  /\ Commit(tracks, currentTrackIndex, isAnalyzing, playerState')
  /\ lastFrame' = NoFrame
  /\ lastWrite' = NoWrite
  /\ UNCHANGED << tracks, currentTrackIndex, isAnalyzing, listener,
                  rendererVars, ringVars >>

\* onNext of Controls
onNext ==
  /\ EffectsFlushed
  /\ rendered.len > 0
  /\ CallsBelowBound
  /\ rendered.currentTrackIndex < rendered.len - 1
  /\ currentTrackIndex' = currentTrackIndex + 1
  /\ Commit(tracks, currentTrackIndex', isAnalyzing, playerState)
  /\ lastFrame' = NoFrame
  /\ lastWrite' = NoWrite
  /\ UNCHANGED << tracks, isAnalyzing, playerState, refVars, rendererVars, ringVars >>

\* onPrev of Controls
onPrev ==
  /\ EffectsFlushed
  /\ rendered.len > 0
  /\ CallsBelowBound
  /\ rendered.currentTrackIndex > 0
  /\ currentTrackIndex' = currentTrackIndex - 1
  /\ Commit(tracks, currentTrackIndex', isAnalyzing, playerState)
  /\ lastFrame' = NoFrame
  /\ lastWrite' = NoWrite
  /\ UNCHANGED << tracks, isAnalyzing, playerState, refVars, rendererVars, ringVars >>

\* handleEnded, the listener of the audio element's ended event, with the
\* closure of the effect that attached it
handleEnded ==
  /\ audio.playing
  /\ audio' = [audio EXCEPT !.playing = FALSE]
  /\ IF listener.index < listener.len - 1
     THEN /\ CallsBelowBound
          /\ currentTrackIndex' = currentTrackIndex + 1
          /\ UNCHANGED playerState
     ELSE /\ playerState' = [playerState EXCEPT !.isPlaying = FALSE]
          /\ UNCHANGED currentTrackIndex
  /\ lastFrame' = NoFrame
  /\ lastWrite' = NoWrite
  /\ UNCHANGED << tracks, isAnalyzing, rendered, audioContextRef, analyserRef,
                  calls, listener, vp, effectsPending, rendererVars, ringVars >>

(***************************************************************************)
(* App: the continuations of playTrack                                     *)
(***************************************************************************)

\* after the try/catch around play(): "if (!track.analysis)" starts the
\* analysis and suspends again, else the call is over
afterPlay(c) ==
  IF c.hadAnalysis
  THEN /\ calls' = calls (-) SetToBag({c})
       /\ UNCHANGED isAnalyzing
  ELSE /\ calls' = (calls (-) SetToBag({c})) (+) SetToBag({[c EXCEPT !.pc = "analysis"]})
       /\ isAnalyzing' = TRUE

\* audio.play() resolved: playback of the element's source started
playResolved(c) ==
  /\ c.pc = "play"
  /\ audio' = [audio EXCEPT !.playing = TRUE, !.last = "played"]
  /\ playerState' = [playerState EXCEPT !.isPlaying = TRUE]
  /\ afterPlay(c)
  /\ lastFrame' = NoFrame
  /\ lastWrite' = NoWrite
  /\ UNCHANGED << tracks, currentTrackIndex, rendered, audioContextRef, analyserRef,
                  listener, vp, effectsPending, rendererVars, ringVars >>

\* audio.play() rejected (aborted by a later load(), or refused): caught
playRejected(c) ==
  /\ c.pc \in {"play", "aborted"}
  /\ audio' = IF c.pc = "play" THEN [audio EXCEPT !.last = "rejected"] ELSE audio
  /\ afterPlay(c)
  /\ lastFrame' = NoFrame
  /\ lastWrite' = NoWrite
  /\ UNCHANGED << tracks, currentTrackIndex, playerState, rendered, audioContextRef,
                  analyserRef, listener, vp, effectsPending, rendererVars,
                  ringVars >>

\* the record of the call's closure with the result attached:
\* { ...track, analysis: result }
attached(c, result) == [id |-> c.trackId, analysis |-> result]

\* an attach that replaces the record at the index App has now
attachAtCurrent(t, c, result) ==
  [t EXCEPT ![currentTrackIndex + 1] = attached(c, result)]

\* newTracks = [...prev]; newTracks[currentTrackIndex] = ...: the index is
\* the one of the call's closure
attach(t, c, result) ==
  [t EXCEPT ![c.index + 1] = attached(c, result)]

\* analyzeAudioVibe resolved with result: the record at the call's index is
\* replaced and isAnalyzing reset
analysisDone(c, result) ==
  /\ c.pc = "analysis"
  /\ tracks' = attach(tracks, c, result)
  /\ lastWrite' = [wrote |-> TRUE, index |-> c.index,
                   overwrote |-> tracks[c.index + 1].analysis # NoAnalysis]
  /\ isAnalyzing' = FALSE
  /\ calls' = calls (-) SetToBag({c})
  /\ lastFrame' = NoFrame
  /\ UNCHANGED << currentTrackIndex, playerState, rendered, audioContextRef,
                  analyserRef, audio, listener, vp, effectsPending, rendererVars,
                  ringVars >>

\* what can happen inside analyzeAudioVibe: all steps succeed, reading the
\* file fails, the remote call fails, the response has no text, or
\* JSON.parse throws
Outcomes == {"ok", "readError", "remoteError", "emptyResponse", "parseError"}

\* an analyzeAudioVibe whose catch lets a parse error through to the caller
analyzeAudioVibeRethrows(outcome) ==
  IF outcome = "ok" THEN "vibe"
  ELSE IF outcome = "parseError" THEN "rejected" ELSE "fallback"

\* analyzeAudioVibe: the parsed response, or from the catch around the whole
\* body the fixed fallback result; "rejected" would be a rejected promise
analyzeAudioVibe(outcome) ==
  IF outcome = "ok" THEN "vibe" ELSE "fallback"

\* "await analyzeAudioVibe" of playTrack throws: playTrack has no catch
\* around it, so the call ends there, before setTracks and
\* setIsAnalyzing(false)
analysisThrew(c) ==
  /\ c.pc = "analysis"
  /\ calls' = calls (-) SetToBag({c})
  /\ lastFrame' = NoFrame
  /\ lastWrite' = NoWrite
  /\ UNCHANGED << appVars, rendered, audioContextRef, analyserRef, audio, listener,
                  vp, effectsPending, rendererVars, ringVars >>

\* the promise of analyzeAudioVibe settles, the call having met outcome
analysisSettled(c, outcome) ==
  IF analyzeAudioVibe(outcome) = "rejected"
  THEN analysisThrew(c)
  ELSE analysisDone(c, analyzeAudioVibe(outcome))

(***************************************************************************)
(* Specification of the player                                             *)
(***************************************************************************)

\* App and the zero-state VinylPlayer have rendered once; the effects of
\* that first commit are still to be flushed
AppInit ==
  /\ tracks = <<>>
  /\ currentTrackIndex = -1
  /\ isAnalyzing = FALSE
  /\ playerState = [isPlaying |-> FALSE]
  /\ rendered = renderOf(<<>>, -1, FALSE, [isPlaying |-> FALSE])
  /\ audioContextRef = Null
  /\ analyserRef = Null
  /\ audio = [src |-> -1, playing |-> FALSE, last |-> "none"]
  /\ calls = EmptyBag
  /\ listener = [len |-> 0, index |-> -1]
  /\ vp = [kind |-> "zero", isPlaying |-> FALSE, accent |-> DefaultAccent]
  /\ loop = [active |-> FALSE, isPlaying |-> FALSE, accent |-> DefaultAccent]
  /\ effectsPending = [vis |-> TRUE, remount |-> FALSE, play |-> TRUE, listen |-> TRUE]
  /\ lastWrite = NoWrite
  /\ requestRef = 0
  /\ pending = {}
  /\ lastFrame = NoFrame

Init ==
  /\ AppInit
  /\ ringArgs = NoRingArgs
  /\ ringPoints = <<>>
  /\ ringPath = <<>>
  /\ ringBuilds = 0

Next ==
  \/ AnimationFrame
  \/ Render
  \/ FlushEffects
  \/ \E n \in 1..MaxTracks : handleFileUpload(n)
  \/ togglePlay
  \/ onNext
  \/ onPrev
  \/ handleEnded
  \/ \E c \in BagToSet(calls) : playResolved(c)
  \/ \E c \in BagToSet(calls) : playRejected(c)
  \/ \E c \in BagToSet(calls), outcome \in Outcomes : analysisSettled(c, outcome)

Spec == Init /\ [][Next]_vars

\* the promise of analyzeAudioVibe for track index i settles
analysisSettles(i) ==
  \E c \in BagToSet(calls), outcome \in Outcomes :
    c.index = i /\ analysisSettled(c, outcome)

\* Every promise of analyzeAudioVibe settles: the FileReader ends with
\* loadend or error and the remote call with a response or an error, and
\* the continuation of a settled promise is run by the event loop
LiveSpec == Spec /\ \A i \in 0..(MaxTracks - 1) : WF_vars(analysisSettles(i))

(***************************************************************************)
(* Specification of VinylPlayer under any owner of analyserRef             *)
(*                                                                         *)
(* VinylPlayer is handed analyserRef as a prop, a mutable reference to an  *)
(* AnalyserNode or null, and reads analyserRef.current anew in every       *)
(* frame.  App never resets the reference; the component's own contract    *)
(* lets its owner do so between two frames.                                *)
(***************************************************************************)

\* the owner of the reference sets analyserRef.current = null
DetachNode ==
  /\ analyserRef # Null
  /\ analyserRef' = Null
  /\ lastFrame' = NoFrame
  /\ lastWrite' = NoWrite
  /\ UNCHANGED << appVars, rendered, audioContextRef, audio, calls, listener, vp,
                  effectsPending, rendererVars, ringVars >>

NextDetach ==
  \/ Next
  \/ DetachNode

SpecDetach == Init /\ [][NextDetach]_vars

(***************************************************************************)
(* Specification of the ring generator run on its own: drawRing applied    *)
(* to a snapshot and the arguments of a ring                               *)
(***************************************************************************)

\* the arguments drawRing is run on: every snapshot and frequency range,
\* the radius offsets a frame computes for the snapshot or none, both
\* smoothing modes and the amplitude scales of the two rings
RingInputs ==
  { [snap |-> snap, radiusOffset |-> off, range |-> range, smoothing |-> smoothing,
     ampScale |-> amp] :
      snap \in Snapshots, range \in FreqRanges,
      off \in UNION { {0, innerRadiusOffset(sn), outerRadiusOffset(sn)} : sn \in Snapshots },
      smoothing \in BOOLEAN,
      amp \in {InnerAmpScale, OuterAmpScale} }

\* drawRing is called at most MaxBuilds times in a run
MaxBuilds == 3

RingInit ==
  /\ AppInit
  /\ ringArgs \in RingInputs
  /\ ringPoints = <<>>
  /\ ringPath = <<>>
  /\ ringBuilds = 0

\* one call of drawRing on args: the points, then the path through them
drawRingCall(args) ==
  /\ ringArgs' = args
  /\ ringPoints' = drawRing(args.snap, args.radiusOffset, args.range, args.ampScale)
  /\ ringPath' = strokePath(ringPoints', args.smoothing)
  /\ ringBuilds' = ringBuilds + 1
  /\ UNCHANGED << appVars, refVars, rendered, vp, effectsPending, rendererVars,
                  lastFrame, lastWrite >>

\* the first call
BuildRing ==
  /\ ringArgs # NoRingArgs
  /\ ringBuilds = 0
  /\ drawRingCall(ringArgs)

\* the call of the next frame, for the same ring on that frame's snapshot
\* (which may be the same snapshot again)
BuildRingAgain ==
  /\ ringBuilds > 0
  /\ ringBuilds < MaxBuilds
  /\ \E snap \in Snapshots : drawRingCall([ringArgs EXCEPT !.snap = snap])

RingNext ==
  \/ BuildRing
  \/ BuildRingAgain

RingSpec == RingInit /\ [][RingNext]_vars

(***************************************************************************)
(* Properties                                                              *)
(***************************************************************************)

\* a frame that found analyserRef.current null: the canvas was cleared and
\* nothing else done, and no callback is left pending
NullFrameDrawsNothing ==
  (lastFrame.ran /\ lastFrame.node = Null) =>
    /\ lastFrame.cleared
    /\ lastFrame.idleRings = 0
    /\ lastFrame.rings = <<>>
    /\ lastFrame.samples = 0
    /\ lastFrame.next = 0
    /\ pending = {}

\* with no callback pending, only a run of the visualizer effect that finds
\* a node requests one
HaltedStaysHalted ==
  (pending = {} /\ pending' # {}) =>
    (lastFrame'.via = "effect" /\ lastFrame'.node # Null)

\* C1: a frame of renderFrame that runs while the analysis-node reference is
\* null (also one scheduled by an earlier frame that ran with a node) draws
\* no idle ring and no rings, does not sample and does not request another
\* frame, and the loop stays halted.
C1_NullFrameHalts == []NullFrameDrawsNothing /\ [][HaltedStaysHalted]_vars

\* a scheduled frame ran after the reference became null
C1_Witness == lastFrame.ran /\ lastFrame.via = "raf" /\ lastFrame.node = Null

\* C2: while the component is mounted and the analysis-node reference is
\* non-null the renderer keeps running: once the effects of a commit are
\* flushed a frame callback is pending, also after initAudioContext attached
\* the node to a renderer whose loop had halted on a null reference.
C2_RunsWhileAttached ==
  (analyserRef # Null /\ EffectsFlushed) => pending # {}

\* C3, as stated: no frame ever executes with a playing flag or an accent
\* colour other than those of the most recent committed render.
C3_NoFrameOlderThanCommit ==
  lastFrame.ran =>
    (lastFrame.isPlaying = lastFrame.propsIsPlaying
       /\ lastFrame.accent = lastFrame.propsAccent)

\* C3, amended: once the effects of the most recent commit are flushed, the
\* callback of the old loop is cancelled and the pending callback is the one
\* of a fresh loop over the committed playing flag and accent colour, and
\* every frame that executes from then on uses the committed values.
C3_RestartOnChange ==
  /\ (lastFrame.ran /\ lastFrame.flushed) =>
       (lastFrame.isPlaying = lastFrame.propsIsPlaying
          /\ lastFrame.accent = lastFrame.propsAccent)
  /\ ~effectsPending.vis =>
       \A c \in pending :
         c.handle = requestRef /\ c.isPlaying = vp.isPlaying /\ c.accent = vp.accent

\* a scheduled frame of a loop restarted for a changed flag and accent
C3_Witness ==
  /\ lastFrame.ran /\ lastFrame.via = "raf" /\ lastFrame.flushed
  /\ lastFrame.isPlaying /\ lastFrame.accent = VibeAccent

\* C4: the effect cleanup cancels the callback the loop has scheduled: no
\* callback of a torn-down loop stays pending and no frame of a torn-down
\* loop executes.
C4_TeardownCancels ==
  /\ \A c \in pending : c.loop = "current"
  /\ lastFrame.ran => lastFrame.loop = "current"

\* the cleanup cancelled the scheduled callback of the loop it tore down,
\* and a paused loop was started in its place
C4_Witness ==
  /\ lastFrame.ran /\ lastFrame.via = "effect" /\ lastFrame.cancelled = 1
  /\ ~lastFrame.isPlaying /\ loop.active

\* C5: a frame that runs with a node attached and the playing flag false
\* draws exactly one idle ring of radius baseRadius, does not sample the
\* spectrum and requests the next frame.
C5_PausedFrame ==
  (lastFrame.ran /\ lastFrame.node # Null /\ ~lastFrame.isPlaying) =>
    /\ lastFrame.idleRings = 1
    /\ lastFrame.idleRadius = BaseRadius * RScale
    /\ lastFrame.samples = 0
    /\ lastFrame.snap = "none"
    /\ lastFrame.rings = <<>>
    /\ lastFrame.next # 0
    /\ requestRef = lastFrame.next
    /\ \E c \in pending : c.handle = lastFrame.next

\* a scheduled frame ran paused with the node attached
C5_Witness ==
  lastFrame.ran /\ lastFrame.via = "raf" /\ lastFrame.node # Null /\ ~lastFrame.isPlaying

\* the playing flag, in App's state or in the renderer's props, is set only
\* with a node attached
PlayingHasNode ==
  (playerState.isPlaying \/ vp.isPlaying \/ (lastFrame.ran /\ lastFrame.isPlaying))
    => analyserRef # Null

\* the step that attaches the node leaves the flag false
IdleLeftToPaused ==
  (analyserRef = Null /\ analyserRef' # Null) =>
    (~playerState.isPlaying' /\ ~vp.isPlaying')

\* C6: orchestrator and renderer are Idle (no node), Paused (node, not
\* playing) or Playing (node, playing): the playing flag implies an attached
\* node, and Idle is left only towards Paused.
C6_Lifecycle == []PlayingHasNode /\ [][IdleLeftToPaused]_vars

\* a playing frame: the lifecycle went from Idle through Paused to Playing
C6_Witness ==
  /\ playerState.isPlaying /\ vp.isPlaying /\ analyserRef # Null
  /\ lastFrame.ran /\ lastFrame.isPlaying /\ lastFrame.via = "effect"

\* C7: for every snapshot and every ring's arguments drawRing builds
\* segments + 1 = 181 points; the first and the last read the bin freqStart,
\* have the same radius, and lie a full turn apart at -90 degrees.
C7_RingClosed ==
  ringPoints # <<>> =>
    /\ Len(ringPoints) = Segments + 1
    /\ Len(ringPoints) = 181
    /\ ringPoints[1].bin = ringArgs.range[1]
    /\ ringPoints[Segments + 1].bin = ringArgs.range[1]
    /\ ringPoints[1].r = ringPoints[Segments + 1].r
    /\ ringPoints[1].angle = -90
    /\ ringPoints[Segments + 1].angle = ringPoints[1].angle + 360

\* the outer ring built on a snapshot whose bins differ
C7_Witness ==
  /\ ringPoints # <<>>
  /\ ringArgs.snap = "spiky"
  /\ ringArgs.range = <<OuterFreqStart, OuterFreqEnd>>

\* C8: mirrored mapping: for every i in 0..segments/2 and every
\* freqStart <= freqEnd, the bin read for segment index i is the bin read
\* for segment index segments - i.
C8_MirroredMapping ==
  ringPoints # <<>> =>
    \A i \in 0..(Segments \div 2) :
      ringPoints[i + 1].bin = ringPoints[Segments - i + 1].bin

\* C9: the bass envelope of a playing frame (bassSum / 12 / 255) lies in
\* [0,1], the inner ring's radiusOffset in [5,20] and the outer ring's in
\* [15,20].
C9_BassEnvelopeBounds ==
  lastFrame.samples = 1 =>
    /\ bassSum(lastFrame.snap) >= 0
    /\ bassSum(lastFrame.snap) <= RScale
    /\ lastFrame.rings[1].radiusOffset >= 5 * RScale
    /\ lastFrame.rings[1].radiusOffset <= 20 * RScale
    /\ lastFrame.rings[2].radiusOffset >= 15 * RScale
    /\ lastFrame.rings[2].radiusOffset <= 20 * RScale

\* a playing frame sampled a snapshot whose envelope is strictly inside
C9_Witness ==
  /\ lastFrame.samples = 1
  /\ bassSum(lastFrame.snap) > 0
  /\ bassSum(lastFrame.snap) < RScale

\* C10: a playing frame that samples all zeros has bass envelope 0, draws
\* the inner ring with radiusOffset 5 and the outer ring with radiusOffset
\* 15, and each of the 181 points of each ring has radius
\* baseRadius + radiusOffset.
C10_SilentFrame ==
  (lastFrame.samples = 1 /\ lastFrame.snap = "zeros") =>
    /\ bassSum(lastFrame.snap) = 0
    /\ Len(lastFrame.rings) = 2
    /\ lastFrame.rings[1].radiusOffset = 5 * RScale
    /\ lastFrame.rings[2].radiusOffset = 15 * RScale
    /\ \A k \in 1..2 :
         LET ring == lastFrame.rings[k]
             points == drawRing(lastFrame.snap, ring.radiusOffset, ring.range,
                                ring.ampScale)
         IN /\ Len(points) = 181
            /\ \A n \in 1..181 : points[n].r = BaseRadius * RScale + ring.radiusOffset

\* a scheduled playing frame sampled all zeros
C10_Witness ==
  lastFrame.ran /\ lastFrame.via = "raf" /\ lastFrame.samples = 1 /\ lastFrame.snap = "zeros"

\* C11: a playing frame that samples a snapshot whose bins 0..11 are all 255
\* has bass envelope exactly 1 and draws the inner and the outer ring with
\* radiusOffset 20, whatever the other bins hold.
C11_FullBass ==
  (lastFrame.samples = 1
     /\ \A k \in 0..(BassBins - 1) : dataArrayAt(lastFrame.snap, k) = MaxByte) =>
    /\ bassSum(lastFrame.snap) = RScale
    /\ lastFrame.rings[1].radiusOffset = 20 * RScale
    /\ lastFrame.rings[2].radiusOffset = 20 * RScale

\* a scheduled playing frame sampled full bass bins over silent upper bins
C11_Witness ==
  /\ lastFrame.via = "raf" /\ lastFrame.samples = 1 /\ lastFrame.snap = "bass"
  /\ dataArrayAt(lastFrame.snap, BassBins) = 0

\* C12: a ring point whose bin index lies outside the snapshot reads the
\* magnitude 0 and is placed at radius baseRadius + radiusOffset; all 181
\* points are produced.
C12_OutOfRangeSilent ==
  ringPoints # <<>> =>
    /\ Len(ringPoints) = 181
    /\ \A n \in 1..Len(ringPoints) :
         (ringPoints[n].bin < 0 \/ ringPoints[n].bin >= frequencyBinCount) =>
           /\ ringPoints[n].val = 0
           /\ ringPoints[n].r = BaseRadius * RScale + ringArgs.radiusOffset

\* a ring over a range that runs past the bins, on a snapshot that is loud
\* in every bin: some points read past the end, others inside
C12_Witness ==
  /\ ringPoints # <<>>
  /\ ringArgs.snap = "full"
  /\ ringArgs.range[2] > frequencyBinCount
  /\ \E n \in 1..Len(ringPoints) : ringPoints[n].bin >= frequencyBinCount
  /\ \E n \in 1..Len(ringPoints) : ringPoints[n].val = MaxByte

\* the points and the path built are those drawRing gives for the arguments
\* of the call alone, whatever was built before
RingOfArgsAlone ==
  ringBuilds > 0 =>
    /\ ringPoints = drawRing(ringArgs.snap, ringArgs.radiusOffset, ringArgs.range,
                             ringArgs.ampScale)
    /\ ringPath = strokePath(ringPoints, ringArgs.smoothing)

\* a call with the arguments of the call before it leaves points and path
\* as they were
SameArgsSameRing ==
  (ringBuilds > 0 /\ ringArgs' = ringArgs) =>
    (ringPoints' = ringPoints /\ ringPath' = ringPath)

SessionEnds == handleEnded \/ onNext \/ onPrev

\* C14: when a playback session ends (the active track changes, or the last
\* track finishes playing) the analysis-node reference is invalidated: the
\* renderer is Idle, and the loop halts at its next frame.
C14_SessionEndInvalidates == [][SessionEnds => analyserRef' = Null]_vars

\* context and node are created together
NodeWithContext == (analyserRef # Null) <=> (audioContextRef # Null)

\* once attached, the node reference and the context reference never change
NodeKept ==
  /\ analyserRef # Null => analyserRef' = analyserRef
  /\ audioContextRef # Null => audioContextRef' = audioContextRef

\* C15: at most one analysis node and one audio context are ever created:
\* the first call of initAudioContext attaches the node and every later call
\* (togglePlay, playTrack on a track change) leaves the reference unchanged.
C15_SingleNode == []NodeWithContext /\ [][NodeKept]_vars

\* playTrack of the second track ran initAudioContext with the node attached
C15_Witness ==
  /\ analyserRef # Null
  /\ \E c \in BagToSet(calls) : c.index = 1 /\ c.pc = "play"

\* C16: every frame that executes, also the one that finds no node and
\* halts, clears the drawing surface first; the halting frame draws nothing
\* after it, so no ring drawn earlier remains on the canvas.
C16_ClearsFirst ==
  lastFrame.ran =>
    /\ lastFrame.cleared
    /\ lastFrame.node = Null => (lastFrame.idleRings = 0 /\ lastFrame.rings = <<>>)

\* a scheduled frame of a playing loop, which drew rings before, found no
\* node: it cleared the canvas and halted
C16_Witness ==
  /\ lastFrame.ran /\ lastFrame.via = "raf" /\ lastFrame.isPlaying
  /\ lastFrame.node = Null /\ lastFrame.cleared /\ pending = {}

\* C17: at any moment at most one frame callback is pending, and
\* requestRef.current holds its handle: the loop is never duplicated.
C17_OnePending ==
  /\ Cardinality(pending) <= 1
  /\ \A c \in pending : c.handle = requestRef

\* the effect of a render that set the playing flag tore down a loop with a
\* callback pending and started the playing loop: one callback is pending
C17_Witness ==
  /\ lastFrame.ran /\ lastFrame.via = "effect" /\ lastFrame.cancelled = 1
  /\ lastFrame.isPlaying /\ Cardinality(pending) = 1
  /\ requestRef = lastFrame.next

\* the smooth path: from point 0, one curve per point 1..179 with that point
\* as its control point, in order, through the midpoints, the last one
\* ending at point 180
SmoothPathClosed ==
  /\ Len(ringPath) = Segments
  /\ ringPath[1] = moveTo(<<0>>)
  /\ \A i \in 1..(Segments - 1) :
       /\ ringPath[i + 1].op = "quadraticCurveTo"
       /\ ringPath[i + 1].control = <<i>>
  /\ \A i \in 1..(Segments - 2) : ringPath[i + 1].to = <<i, i + 1>>
  /\ ringPath[Segments].to = <<Segments>>

\* the sharp path: from point 0, straight segments to the points 0..180 in
\* order
SharpPathClosed ==
  /\ Len(ringPath) = Segments + 2
  /\ ringPath[1] = moveTo(<<0>>)
  /\ \A i \in 0..Segments : ringPath[i + 2] = lineTo(<<i>>)
  /\ ringPath[Segments + 2].to = <<Segments>>

\* C18: the path of a ring is closed in both modes: it starts at point 0 and
\* ends at point 180 (through the control points 1..179 once each in order
\* with smoothing, through all 181 points by straight segments without), and
\* point 0 and point 180 have the same radius at angles a full turn apart.
C18_PathClosed ==
  ringBuilds > 0 =>
    /\ IF ringArgs.smoothing THEN SmoothPathClosed ELSE SharpPathClosed
    /\ ringPoints[1].r = ringPoints[Segments + 1].r
    /\ ringPoints[Segments + 1].angle - ringPoints[1].angle = 360

\* a smooth ring was built and stroked on a snapshot whose bins differ
C18_Witness ==
  /\ ringBuilds > 0 /\ ringArgs.smoothing /\ ringArgs.snap = "spiky"
  /\ ringArgs.range = <<InnerFreqStart, InnerFreqEnd>>
  /\ Len(ringPath) = Segments

\* the points drawRing builds for ring, one of the two rings of a frame
pointsOf(snap, ring) ==
  drawRing(snap, ring.radiusOffset, ring.range, ring.ampScale)

\* the points of the two rings of a playing frame, by the frame's snapshot
\* (they depend on nothing else: tabulated once)
FramePointsTable ==
  [snap \in FrameSnapshots |-> [k \in 1..2 |-> pointsOf(snap, ringsOf(snap)[k])]]

\* the points of ring k of the playing frame just run
framePoints(k) ==
  IF lastFrame.snap \in FrameSnapshots /\ lastFrame.rings = ringsOf(lastFrame.snap)
  THEN FramePointsTable[lastFrame.snap][k]
  ELSE pointsOf(lastFrame.snap, lastFrame.rings[k])

\* C19: every point of both rings of a playing frame has a radius between
\* baseRadius + 5 = 210 and baseRadius + 20 + 30 = 255: outside the disc
\* (radius 200) and inside the canvas (half-width 400).
C19_RadiusBounds ==
  lastFrame.samples = 1 =>
    \A k \in 1..2 :
      LET points == framePoints(k) IN
      /\ Len(points) = Segments + 1
      /\ \A n \in 1..(Segments + 1) :
           LET r == points[n].r IN
           /\ r >= 210 * RScale
           /\ r <= 255 * RScale
           /\ r >= (BaseRadius + InnerOffsetBase) * RScale
           /\ r <= (BaseRadius + 20 + InnerAmpScale) * RScale
           /\ 2 * r > DiscSize * RScale
           /\ 2 * r < CanvasSize * RScale

\* a playing frame whose inner ring reaches the largest radius, 255
C19_Witness ==
  /\ lastFrame.samples = 1
  /\ LET points == framePoints(1)
     IN \E n \in 1..(Segments + 1) : points[n].r = 255 * RScale

\* the track records stay in upload order: the record at position k is the
\* k-th uploaded one
TracksKeepOrder == \A k \in 1..Len(tracks) : tracks[k].id = k

\* an analysis that finishes writes the record of the track it analysed, at
\* that track's position, with its result whatever the record held before,
\* and leaves every other record as it was
AttachIsLocal ==
  \A c \in BagToSet(calls), result \in Results :
    analysisDone(c, result) =>
      /\ Len(tracks') = Len(tracks)
      /\ tracks[c.index + 1].id = c.trackId
      /\ tracks'[c.index + 1] = [id |-> c.trackId, analysis |-> result]
      /\ \A k \in 1..Len(tracks) : k # c.index + 1 => tracks'[k] = tracks[k]

\* no step removes a record, and a record changes only in a step that
\* attached a result at its position, keeping its id
OnlyAttachWrites ==
  /\ Len(tracks') >= Len(tracks)
  /\ \A k \in 1..Len(tracks) :
       tracks'[k] # tracks[k] =>
         /\ lastWrite'.wrote
         /\ lastWrite'.index = k - 1
         /\ tracks'[k].id = tracks[k].id

\* C20: a completed analysis result is stored only on the record of the
\* track it was computed for, also when the user has moved to another track
\* or uploaded more tracks meanwhile: it is written at that track's
\* position, the other records and the order are unchanged, and of several
\* results for one track the latest written stays
C20_ResultOnOwnTrack ==
  []TracksKeepOrder /\ [][AttachIsLocal /\ OnlyAttachWrites]_vars

\* a second result for a track has just replaced its first one while
\* another track is the current one
C20_Witness ==
  /\ lastWrite.wrote
  /\ lastWrite.overwrote
  /\ Len(tracks) = MaxTracks
  /\ lastWrite.index # currentTrackIndex
  /\ tracks[lastWrite.index + 1].analysis # NoAnalysis
  /\ tracks[lastWrite.index + 1].id = lastWrite.index + 1

\* C21: the current-track pointer is always valid: currentTrackIndex is -1
\* exactly when there are no tracks and otherwise lies in
\* 0 .. tracks.length - 1
C21_PointerValid ==
  /\ (currentTrackIndex = -1) <=> (Len(tracks) = 0)
  /\ Len(tracks) > 0 => (currentTrackIndex >= 0 /\ currentTrackIndex <= Len(tracks) - 1)

\* an analysis request (await analyzeAudioVibe) is in flight, for track index i
analysisInFlightFor(i) ==
  \E c \in BagToSet(calls) : c.pc = "analysis" /\ c.index = i

analysisInFlight == \E c \in BagToSet(calls) : c.pc = "analysis"

\* isAnalyzing is false once no analysis request is in flight
IdleWhenNoneInFlight == ~analysisInFlight => ~isAnalyzing

\* C22: isAnalyzing is true whenever an analysis request for the current
\* track is in flight, whatever other analyses started or completed
\* meanwhile, and false once no analysis request is in flight
C22_AnalyzingFlag ==
  /\ analysisInFlightFor(currentTrackIndex) => isAnalyzing
  /\ IdleWhenNoneInFlight

\* a play() promise is pending only while play was the last transport command
PendingIsLast ==
  (\E c \in BagToSet(calls) : c.pc = "play") => audio.last = "pending"

\* C23: the playing flag given to the renderer agrees with the audio
\* element: once the last transport command has settled and App has
\* rendered its state, the flag is true exactly when that command was a
\* play that succeeded
C23_FlagAgreesWithAudio ==
  (~Dirty /\ Len(tracks) > 0 /\ audio.last # "pending") =>
    (vp.isPlaying <=> audio.last = "played")

\* the ended event of the current track's audio
currentTrackEnded == handleEnded /\ audio.src = currentTrackIndex

\* the same ended event handled by the listener the latest render attached:
\* then the pointer advances by one with the flag unchanged, or stays with
\* the flag reset
EndedWithFreshListener ==
  [][(currentTrackEnded /\ EffectsFlushed) =>
       IF currentTrackIndex < Len(tracks) - 1
       THEN currentTrackIndex' = currentTrackIndex + 1 /\ playerState' = playerState
       ELSE currentTrackIndex' = currentTrackIndex /\ ~playerState'.isPlaying]_vars

\* C24: when the audio of the current track ends and it is not the last
\* track, the pointer advances by exactly one and the playing flag is left
\* unchanged; when it is the last track, the pointer is unchanged and the
\* playing flag becomes false
C24_EndedAdvancesOrStops ==
  [][currentTrackEnded =>
       IF currentTrackIndex < Len(tracks) - 1
       THEN currentTrackIndex' = currentTrackIndex + 1 /\ playerState' = playerState
       ELSE currentTrackIndex' = currentTrackIndex /\ ~playerState'.isPlaying]_vars

\* a settled analysis stored a result on its track and reset isAnalyzing;
\* the result is the fallback one whenever anything failed inside
SettledStores ==
  \A c \in BagToSet(calls), outcome \in Outcomes :
    analysisSettled(c, outcome) =>
      /\ lastWrite'.wrote /\ lastWrite'.index = c.index
      /\ tracks'[c.index + 1].analysis \in Results
      /\ outcome # "ok" => tracks'[c.index + 1].analysis = "fallback"
      /\ ~isAnalyzing'

\* an analysis in flight leaves only by storing a result
LeavesByStoring ==
  \A c \in BagToSet(calls) :
    (c.pc = "analysis" /\ CopiesIn(c, calls') < CopiesIn(c, calls)) =>
      (lastWrite'.wrote /\ lastWrite'.index = c.index /\ ~isAnalyzing')

\* an analysis in flight for track i is followed by a result stored on it
EventuallyStored(i) ==
  analysisInFlightFor(i) ~>
    (lastWrite.wrote /\ lastWrite.index = i /\ ~isAnalyzing
       /\ tracks[i + 1].analysis # NoAnalysis)

\* C25: analyzeAudioVibe never fails towards its caller: on any failure
\* inside it resolves with the fallback result; so every analysis playTrack
\* starts eventually stores a result on its track and resets isAnalyzing
C25_AnalysisAlwaysStores ==
  /\ [][SettledStores /\ LeavesByStoring]_vars
  /\ \A i \in 0..(MaxTracks - 1) : EventuallyStored(i)

\* an analysis that failed inside has just stored the fallback result
C25_Witness ==
  /\ lastWrite.wrote
  /\ tracks[lastWrite.index + 1].analysis = "fallback"
  /\ ~isAnalyzing

====
